---- MODULE Spec2Model ----
(***************************************************************************)
(* State-machine model of RiotPipeline (src/src/pipeline/                  *)
(* pipeline_workflow.py): the four sequential collection stages driven by  *)
(* start_pipeline, the SQLite store they read and write, and the buffers   *)
(* each stage accumulates.  Every API response is an input drawn from a    *)
(* bounded set when the call is made.                                      *)
(*                                                                         *)
(* Rows keep the columns the stages compute or later read; the remaining   *)
(* columns are copied unchanged from the payload and are not represented.  *)
(***************************************************************************)
EXTENDS Integers, Sequences, FiniteSets, TLC

(* ------------------------------ bounds -------------------------------- *)

\* players known upstream (roster entries, participants of a match)
MaxPlayers == 2
\* match ids a player's history returns / matches known upstream
MaxMatches == 2
\* roster pages the API serves for one (tier, division)
MaxPages == 1
\* frames of a timeline
MaxFrames == 1
\* events of a timeline, over all its frames
MaxEvents == 2
\* participants whose tier is looked up in one majority vote
MaxVotes == 5
\* dragon kills of one team in a match payload
MaxDragonKills == 5
\* game durations of a match payload, in steps of one and of ten minutes
MaxDurationSteps == 3
\* tiers, and divisions, in the lists given to Stage 1
MaxTiers == 2
MaxDivisions == 2
\* values in the stages_to_process given to the constructor
MaxFlags == 5

(* --------------------------- value domains ---------------------------- *)

\* Python's None, where a string is expected
None == "None"
\* Python's None, where a number is expected
NoneNum == -1

PuuidNames == <<"p1", "p2", "p3", "p4">>
MatchNames == <<"m1", "m2", "m3", "m4">>
PUUIDS == {PuuidNames[n] : n \in 1..MaxPlayers}
MATCHIDS == {MatchNames[n] : n \in 1..MaxMatches}
TeamIds == {100, 200}
TIERS == {"GOLD", "SILVER"}
PositionNames == <<"TOP", "JUNGLE", "MIDDLE", "BOTTOM">>

DefaultEventTypes == {"ELITE_MONSTER_KILL", "CHAMPION_KILL", "BUILDING_KILL"}
KillEventTypes == {"ELITE_MONSTER_KILL", "CHAMPION_KILL", "BUILDING_KILL"}
\* an event type of the timeline API that is no kill event
OtherEventType == "WARD_PLACED"
\* objectives.dragon.kills of a team
DragonKillCounts == 0..MaxDragonKills
\* info.gameDuration
GameDurations == {60 * k : k \in 0..MaxDurationSteps} \cup
                 {600 * k : k \in 0..MaxDurationSteps}
\* info.gameEndTimestamp: the key is absent (NoneNum), or it holds the positive
\* epoch time at which the game ended (1 stands for it)
EndTimestamps == {NoneNum, 1}

(* ------------------------------ helpers ------------------------------- *)

Range(s) == {s[n] : n \in 1..Len(s)}

\* the sequences of length len over S that repeat no element
RECURSIVE DistinctSeqs(_, _)
DistinctSeqs(S, len) ==
    IF len = 0 THEN {<<>>}
    ELSE UNION {{Append(s, e) : e \in S \ Range(s)} : s \in DistinctSeqs(S, len - 1)}

DistinctSeqsUpTo(S, lo, hi) == UNION {DistinctSeqs(S, len) : len \in lo..hi}

\* the sequences of length 0..hi over S
SeqsUpTo(S, hi) == UNION {[1..len -> S] : len \in 0..hi}

\* Python's a % b for a >= 0 and b # 0: the result has the sign of b
PyMod(a, b) ==
    IF b > 0 THEN a % b
    ELSE LET r == a % (0 - b) IN IF r = 0 THEN 0 ELSE r + b

\* dict.get(k): None when the key is absent
DictGet(d, k) == IF k \in DOMAIN d THEN d[k] ELSE None

(* ------------------------------- state -------------------------------- *)

VARIABLES
    \* configuration fixed by __init__
    stages_to_process, batch_insert_limit, eventTypesToConsider, page_limit,
    \* arguments of _collect_summoner_entries_by_tier
    tiers, divisions,
    \* what the API can answer during this run (see AnyUpstream)
    upstream,
    \* position in start_pipeline / _collect_data, and inside the running stage
    pc, callIdx,
    \* the logger's start / skip records, with each stage's return
    log,
    \* the API calls issued so far: <<stage, endpoint, argument>>
    calls,
    \* the API calls issued since the last time.sleep (2: two or more)
    since_delay,
    \* the (puuid, matchId) pairs _get_teamId_teamPos has queried the store for
    lookups,
    \* the store: whether the schema exists, and the five tables
    tables_exist,
    Summoners_Table, Match_ID_Table, Match_Data_Teams_Table,
    Match_Data_Participants_Table, Match_Timeline_Table,
    \* the locals of the four stages
    loc1, loc2, loc3, loc4,
    \* a call of _get_majority_tier taken one lookup at a time
    vote

config == <<stages_to_process, batch_insert_limit, eventTypesToConsider,
            page_limit, tiers, divisions, upstream>>
store == <<tables_exist, Summoners_Table, Match_ID_Table, Match_Data_Teams_Table,
           Match_Data_Participants_Table, Match_Timeline_Table>>
locals == <<loc1, loc2, loc3, loc4>>
vars == <<config, pc, callIdx, log, calls, since_delay, lookups, store, locals, vote>>

\* since_delay after one more API call
AfterCall(n) == IF n >= 2 THEN 2 ELSE n + 1

(* ------------------------------ the store ----------------------------- *)

\* the declared primary key of each table
PrimaryKey(table, r) ==
    CASE table = "Summoners_Table" -> <<r.puuid>>
      [] table = "Match_ID_Table" -> <<r.matchId>>
      [] table = "Match_Data_Teams_Table" -> <<r.matchId, r.teamId>>
      [] table = "Match_Data_Participants_Table" -> <<r.puuId, r.matchId>>
      [] table = "Match_Timeline_Table" -> <<r.matchId, r.puuId, r.timestamp>>

HasKey(table, rows, r) ==
    \E n \in 1..Len(rows) : PrimaryKey(table, rows[n]) = PrimaryKey(table, r)

\* faulty variant of InsertOrIgnore: a plain append, keys are not looked at
InsertOrIgnore_append(table, rows, data) == rows \o data

\* faulty variant of InsertOrIgnore: INSERT OR REPLACE, the row whose key
\* exists takes the new values
RECURSIVE InsertOrIgnore_replace(_, _, _)
InsertOrIgnore_replace(table, rows, data) ==
    IF data = <<>> THEN rows
    ELSE InsertOrIgnore_replace(table,
            IF HasKey(table, rows, Head(data))
            THEN [n \in 1..Len(rows) |->
                    IF PrimaryKey(table, rows[n]) = PrimaryKey(table, Head(data))
                    THEN Head(data) ELSE rows[n]]
            ELSE Append(rows, Head(data)),
            Tail(data))

\* cursor.executemany of INSERT OR IGNORE: a row whose key exists is skipped
RECURSIVE InsertOrIgnore(_, _, _)
InsertOrIgnore(table, rows, data) ==
    IF data = <<>> THEN rows
    ELSE InsertOrIgnore(table,
                        IF HasKey(table, rows, Head(data)) THEN rows
                        ELSE Append(rows, Head(data)),
                        Tail(data))

\* cursor.executemany of a plain INSERT inside "with connection": the first row
\* whose key exists raises IntegrityError and the transaction is rolled back
RECURSIVE InsertAll(_, _, _)
InsertAll(table, rows, data) ==
    IF data = <<>> THEN [ok |-> TRUE, rows |-> rows]
    ELSE IF HasKey(table, rows, Head(data)) THEN [ok |-> FALSE, rows |-> rows]
    ELSE InsertAll(table, Append(rows, Head(data)), Tail(data))

\* faulty variant of PlainInsert: INSERT OR REPLACE
PlainInsert_replace(table, rows, data) ==
    [ok |-> TRUE, rows |-> InsertOrIgnore_replace(table, rows, data)]

PlainInsert(table, rows, data) ==
    LET r == InsertAll(table, rows, data)
    IN  IF r.ok THEN r ELSE [ok |-> FALSE, rows |-> rows]

\* SELECT DISTINCT matchId, in the order of first appearance
RECURSIVE DistinctMatchIds(_)
DistinctMatchIds(rows) ==
    IF rows = <<>> THEN <<>>
    ELSE LET rest == DistinctMatchIds(SubSeq(rows, 1, Len(rows) - 1))
             m == rows[Len(rows)].matchId
         IN  IF m \in Range(rest) THEN rest ELSE Append(rest, m)

(* ------------------------- _get_majority_tier ------------------------- *)

\* what get_summoner_tier_from_puuid can do for one participant: return a tier,
\* return nothing (None or ""), or raise
NoTier == ""
LookupFails == "<raises>"
TierOutcomes == TIERS \cup {NoTier, LookupFails}

\* an exception leaving a function
Raised == "<exception>"

\* tier_freq_dict is a dict: its keys in insertion order, each with its count
DictIndex(d, k) == {n \in 1..Len(d) : d[n].key = k}

\* tier_freq_dict[tier] = tier_freq_dict.get(tier, 0) + 1
DictIncrement(d, k) ==
    IF DictIndex(d, k) = {} THEN Append(d, [key |-> k, count |-> 1])
    ELSE [n \in 1..Len(d) |->
            IF d[n].key = k THEN [d[n] EXCEPT !.count = @ + 1] ELSE d[n]]

\* faulty variant of DictMaxByCount: among the keys with the highest count it
\* takes the last one in iteration order
DictMaxByCount_last(d) ==
    IF d = <<>> THEN Raised
    ELSE LET best == CHOOSE n \in 1..Len(d) :
                        /\ \A o \in 1..Len(d) : d[o].count <= d[n].count
                        /\ \A o \in (n + 1)..Len(d) : d[o].count < d[n].count
         IN  d[best].key

\* max(tier_freq_dict, key=tier_freq_dict.get): the first key, in iteration
\* order, whose count no other key exceeds; ValueError on an empty dict
DictMaxByCount(d) ==
    IF d = <<>> THEN Raised
    ELSE LET best == CHOOSE n \in 1..Len(d) :
                        /\ \A o \in 1..Len(d) : d[o].count <= d[n].count
                        /\ \A o \in 1..(n - 1) : d[o].count < d[n].count
         IN  d[best].key

\* the locals of _get_majority_tier before the loop
TierLoopStart ==
    [tier_freq_dict |-> <<>>, tier |-> None, tierBound |-> FALSE, raised |-> FALSE]

\* one iteration of the loop over player_puuids. A lookup that raises is logged
\* and leaves `tier` as the previous iteration set it; reading it while it was
\* never assigned raises UnboundLocalError.
TierLoopBody(st, outcome) ==
    IF st.raised THEN st
    ELSE LET bound == st.tierBound \/ outcome # LookupFails
             tier == IF outcome # LookupFails THEN outcome ELSE st.tier
         IN  IF ~bound THEN [st EXCEPT !.raised = TRUE]
             ELSE [st EXCEPT !.tierBound = TRUE, !.tier = tier,
                             !.tier_freq_dict =
                                 IF tier # NoTier /\ tier # None
                                 THEN DictIncrement(@, tier) ELSE @]

RECURSIVE TierLoop(_, _)
TierLoop(st, outcomes) ==
    IF outcomes = <<>> THEN st
    ELSE TierLoop(TierLoopBody(st, Head(outcomes)), Tail(outcomes))

\* the value returned for the given lookup outcomes, or Raised
_get_majority_tier(outcomes) ==
    LET st == TierLoop(TierLoopStart, outcomes)
    IN  IF st.raised THEN Raised ELSE DictMaxByCount(st.tier_freq_dict)

(* ------------------------ _get_teamId_teamPos ------------------------- *)

\* (None, "") for the minion sentinel without touching the store; otherwise the
\* first row of the SELECT on Match_Data_Participants_Table, or None when the
\* SELECT is empty. `queried` records that the SELECT ran.
_get_teamId_teamPos(puuid, match_id, participants) ==
    IF puuid = "Minion"
    THEN [isNone |-> FALSE, queried |-> FALSE, teamId |-> NoneNum, teamPosition |-> ""]
    ELSE LET query_data == SelectSeq(participants,
                               LAMBDA r : r.puuId = puuid /\ r.matchId = match_id)
         IN  IF Len(query_data) = 0
             THEN [isNone |-> TRUE, queried |-> TRUE,
                   teamId |-> NoneNum, teamPosition |-> None]
             ELSE [isNone |-> FALSE, queried |-> TRUE,
                   teamId |-> query_data[1].teamId,
                   teamPosition |-> query_data[1].teamPosition]

(* ----------------- the timeline payload (Stage 4 input) ---------------- *)

\* timestamps and positions are read from the payload and copied to the row;
\* the model gives every event and sample of a match its own values
FrameTimestamp(f) == 10 * f
EventTimestamp(f, j) == 10 * f + j

KillEvent(type, killer, team, f, j) ==
    [type |-> type, killerId |-> killer,
     killerTeamId |-> IF type = "ELITE_MONSTER_KILL" THEN team ELSE NoneNum,
     teamId |-> IF type = "BUILDING_KILL" THEN team ELSE NoneNum,
     monsterType |-> IF type = "ELITE_MONSTER_KILL" THEN "DRAGON" ELSE None,
     buildingType |-> IF type = "BUILDING_KILL" THEN "TOWER_BUILDING" ELSE None,
     x |-> EventTimestamp(f, j), y |-> EventTimestamp(f, j) + 1,
     timestamp |-> EventTimestamp(f, j)]

\* what distinguishes the events of a timeline: the type, the killer's in-game
\* id, and the team named in the payload (killerTeamId or teamId)
EventShapes ==
    {[type |-> "ELITE_MONSTER_KILL", killerId |-> k, team |-> t] :
         k \in 0..MaxPlayers, t \in TeamIds}
    \cup {[type |-> "BUILDING_KILL", killerId |-> k, team |-> t] :
         k \in 0..MaxPlayers, t \in TeamIds}
    \cup {[type |-> "CHAMPION_KILL", killerId |-> k, team |-> NoneNum] :
         k \in 0..MaxPlayers}
    \cup {[type |-> OtherEventType, killerId |-> NoneNum, team |-> NoneNum]}

\* the event lists of frame f with at most `most` events of the given shapes
RECURSIVE FrameEventLists(_, _, _)
FrameEventLists(f, most, shapes) ==
    IF most = 0 THEN {<<>>}
    ELSE FrameEventLists(f, most - 1, shapes) \cup
         UNION {{Append(s, KillEvent(e.type, e.killerId, e.team, f, most)) :
                     e \in shapes} :
                    s \in {t \in FrameEventLists(f, most - 1, shapes) :
                              Len(t) = most - 1}}

\* frame['participantFrames']: one sample per participant of the timeline, in
\* the order of the ids
ParticipantFrames(f, count) ==
    [n \in 1..count |-> [participantId |-> n, x |-> FrameTimestamp(f) + n,
                         y |-> FrameTimestamp(f) + n]]

\* the dict built from data['info']['participants'], with 0 for the minion
ParticipantIds(puuids) ==
    [n \in 0..Len(puuids) |-> IF n = 0 THEN "Minion" ELSE puuids[n]]

(* ---------------- Stage 4: the loops over one frame -------------------- *)

\* the event loop's locals that outlive an iteration; boundA covers the ones
\* assigned before the lookup, boundB the ones assigned after it
NoEventLocals ==
    [boundA |-> FALSE, boundB |-> FALSE, puuid_e |-> None, in_game_id_e |-> NoneNum,
     position_x_e |-> NoneNum, position_y_e |-> NoneNum, timestamp_e |-> NoneNum,
     team_position_e |-> None, team_id_e |-> NoneNum, event_type_e |-> None]

frame_event(id, ev, event_name_e) ==
    [matchId |-> id, puuId |-> ev.puuid_e, teamId |-> ev.team_id_e,
     inGameId |-> ev.in_game_id_e, teamPosition |-> ev.team_position_e,
     x |-> ev.position_x_e, y |-> ev.position_y_e, timestamp |-> ev.timestamp_e,
     event |-> event_name_e, type |-> ev.event_type_e]

\* faulty variant of team_id_e: a building kill is given the killer's team
team_id_e_mutant(event, teamId_teamPos_e) ==
    CASE event.type = "ELITE_MONSTER_KILL" -> event.killerTeamId
      [] event.type = "CHAMPION_KILL" -> teamId_teamPos_e.teamId
      [] event.type = "BUILDING_KILL" -> teamId_teamPos_e.teamId

\* team_id_e and event_type_e of a kill event, by its type
team_id_e(event, teamId_teamPos_e) ==
    CASE event.type = "ELITE_MONSTER_KILL" -> event.killerTeamId
      [] event.type = "CHAMPION_KILL" -> teamId_teamPos_e.teamId
      [] event.type = "BUILDING_KILL" -> event.teamId

event_type_e(event) ==
    CASE event.type = "ELITE_MONSTER_KILL" -> event.monsterType
      [] event.type = "CHAMPION_KILL" -> "KILL"
      [] event.type = "BUILDING_KILL" -> event.buildingType

\* One iteration of "for event in frame['events']". st carries data_events, the
\* locals, the lookups issued, and how the loop stands: "run", "break" (the
\* loop was left) or "raise" (an uncaught exception).
EventLoopBody(st, event, id, participant_ids, participants, allowed) ==
    IF st.status # "run" \/ event.type \notin allowed THEN st
    ELSE IF event.type \in KillEventTypes
    THEN LET in_game_id_e == event.killerId
             puuid_e == IF in_game_id_e = 0 THEN "Minion"
                        ELSE DictGet(participant_ids, in_game_id_e)
             teamId_teamPos_e == _get_teamId_teamPos(puuid_e, id, participants)
             evA == [st.ev EXCEPT !.boundA = TRUE, !.puuid_e = puuid_e,
                                  !.in_game_id_e = in_game_id_e,
                                  !.position_x_e = event.x, !.position_y_e = event.y,
                                  !.timestamp_e = event.timestamp]
             evB == [evA EXCEPT !.boundB = TRUE,
                                !.team_position_e = teamId_teamPos_e.teamPosition,
                                !.team_id_e = team_id_e(event, teamId_teamPos_e),
                                !.event_type_e = event_type_e(event)]
             asked == IF teamId_teamPos_e.queried
                      THEN st.lookups \cup {<<puuid_e, id>>} ELSE st.lookups
         IN  IF teamId_teamPos_e.isNone /\ puuid_e # "Minion"
             THEN [st EXCEPT !.ev = evA, !.lookups = asked, !.status = "break"]
             ELSE [st EXCEPT !.ev = evB, !.lookups = asked,
                             !.data_events = Append(@, frame_event(id, evB, event.type))]
    ELSE \* an allowed type that is no kill event: the locals are not assigned
         IF st.ev.boundA /\ st.ev.boundB
         THEN [st EXCEPT !.data_events = Append(@, frame_event(id, st.ev, event.type))]
         ELSE [st EXCEPT !.status = "raise"]

RECURSIVE EventLoop(_, _, _, _, _, _)
EventLoop(st, events, id, participant_ids, participants, allowed) ==
    IF events = <<>> THEN st
    ELSE EventLoop(EventLoopBody(st, Head(events), id, participant_ids,
                                 participants, allowed),
                   Tail(events), id, participant_ids, participants, allowed)

\* One iteration of "for participantId, participantFrame in ...items()"
SampleLoopBody(st, sample, general_timestamp, id, participant_ids, participants) ==
    IF st.status # "run" THEN st
    ELSE LET puuid_p == DictGet(participant_ids, sample.participantId)
             teamId_teamPos_p == _get_teamId_teamPos(puuid_p, id, participants)
             asked == IF teamId_teamPos_p.queried
                      THEN st.lookups \cup {<<puuid_p, id>>} ELSE st.lookups
         IN  IF teamId_teamPos_p.isNone
             THEN [st EXCEPT !.lookups = asked, !.status = "break"]
             ELSE [st EXCEPT !.lookups = asked,
                      !.data_events = Append(@,
                          [matchId |-> id, puuId |-> puuid_p,
                           teamId |-> teamId_teamPos_p.teamId,
                           inGameId |-> sample.participantId,
                           teamPosition |-> teamId_teamPos_p.teamPosition,
                           x |-> sample.x, y |-> sample.y,
                           timestamp |-> general_timestamp,
                           event |-> "POSITION", type |-> "PARTICIPANT_FRAME"])]

RECURSIVE SampleLoop(_, _, _, _, _, _)
SampleLoop(st, samples, general_timestamp, id, participant_ids, participants) ==
    IF samples = <<>> THEN st
    ELSE SampleLoop(SampleLoopBody(st, Head(samples), general_timestamp, id,
                                   participant_ids, participants),
                    Tail(samples), general_timestamp, id, participant_ids, participants)

\* the body of "for frame in data['info']['frames']": the event loop, and unless
\* it raised, the participantFrames loop
FrameBody(st, frame, id, participant_ids, participants, allowed) ==
    LET afterEvents == EventLoop([st EXCEPT !.status = "run"], frame.events, id,
                                 participant_ids, participants, allowed)
    IN  IF afterEvents.status = "raise" THEN afterEvents
        ELSE SampleLoop([afterEvents EXCEPT !.status = "run"],
                        frame.participantFrames, frame.timestamp, id,
                        participant_ids, participants)

(* ------------------------- the stages' locals -------------------------- *)

\* `failed`: the last get_summoner_entries_by_tier call raised (logger.error)
Loc1Start ==
    [tierIdx |-> 1, divIdx |-> 1, pages |-> 1, failed |-> FALSE,
     entriesBound |-> FALSE, summoner_entries |-> <<>>, entriesKind |-> "list"]

\* failed: the last fetch raised; submitted: how many rows of data the last
\* executemany was given (both only observe the run)
Loc2Start ==
    [puuid_list |-> <<>>, count |-> 0, data |-> <<>>, failed |-> FALSE,
     submitted |-> 0, idsBound |-> FALSE, temp_match_ids |-> <<>>]

\* game_duration before its first assignment. A duration or a rate is a float in the code; the model keeps the exact
\* quotient num / den
NoDuration == [num |-> NoneNum, den |-> 1]

\* match_data before the first fetch
NoMatchData == [participants |-> <<>>, teams |-> <<>>,
                info |-> [gameDuration |-> NoneNum, gameEndTimestamp |-> NoneNum]]

Loc3Start == [match_ids |-> <<>>, i |-> 0, data_teams |-> <<>>, data_participants |-> <<>>,
              match_data |-> NoMatchData, game_duration |-> NoDuration]

NoFrame == [timestamp |-> NoneNum, events |-> <<>>, participantFrames |-> <<>>]

Loc4Start ==
    [match_ids |-> <<>>, iter_ |-> 0, data_events |-> <<>>,
     participant_ids |-> ParticipantIds(<<>>), frame |-> NoFrame,
     frameNo |-> 0, eventsSeen |-> 0, ev |-> NoEventLocals]

\* _get_majority_tier is not being followed lookup by lookup
NoVote == [outcomes |-> <<>>, done |-> 0, st |-> TierLoopStart, result |-> None]

\* no stage is running: no stage has locals
NoLocals ==
    /\ loc1 = Loc1Start
    /\ loc2 = Loc2Start
    /\ loc3 = Loc3Start
    /\ loc4 = Loc4Start

(* --------------------- start_pipeline, _collect_data ------------------- *)

\* faulty variant of StageOrder: Stage 3 is called before Stage 2
StageOrder_swapped == <<1, 3, 2, 4>>

\* the order in which _collect_data calls the stages
StageOrder == <<1, 2, 3, 4>>

\* faulty variant of process_decorator: the flag is ignored
process_decorator_always(activate) == TRUE

\* the wrapper runs the stage when activate == 1 and skips it otherwise
process_decorator(activate) == activate = 1

StageEntry(k) ==
    CASE k = 1 -> "s1_validate" [] k = 2 -> "s2_select"
      [] k = 3 -> "s3_select" [] k = 4 -> "s4_select"

\* the running stage returns to _collect_data, which goes on to its next call
StageReturns(k) ==
    /\ pc' = IF callIdx = Len(StageOrder) THEN "done" ELSE "call"
    /\ callIdx' = callIdx + 1
    /\ log' = Append(log, <<"returned", k>>)

\* an exception no handler catches leaves start_pipeline
Crashes ==
    /\ pc' = "crashed"
    /\ UNCHANGED <<callIdx, log>>

\* __init__: the loop over stages_to_process raises ValueError at the first
\* value when that value is not 0 or 1 or the tuple has more than 4 values
Construct ==
    /\ pc = "construct"
    /\ pc' = IF \E n \in DOMAIN stages_to_process :
                    stages_to_process[n] \notin {0, 1} \/ Len(stages_to_process) > 4
             THEN "value_error" ELSE "start"
    /\ UNCHANGED <<config, vote, callIdx, log, calls, since_delay, lookups, store, locals>>

\* _collect_data reads self.stages_to_process[k] for a k the tuple does not
\* have: IndexError
FlagMissing ==
    /\ pc = "call"
    /\ callIdx \notin DOMAIN stages_to_process
    /\ Crashes
    /\ UNCHANGED <<config, vote, calls, since_delay, lookups, store, locals>>

CreateDatabase ==
    /\ pc = "start"
    /\ pc' = "create_all_tables"
    /\ UNCHANGED <<config, vote, callIdx, log, calls, since_delay, lookups, store, locals>>

\* CREATE TABLE IF NOT EXISTS: existing tables keep their rows
CreateAllTables ==
    /\ pc = "create_all_tables"
    /\ pc' = "call"
    /\ tables_exist' = TRUE
    /\ log' = Append(log, <<"schema", 0>>)
    /\ UNCHANGED <<config, vote, callIdx, calls, since_delay, lookups, Summoners_Table, Match_ID_Table,
                   Match_Data_Teams_Table, Match_Data_Participants_Table,
                   Match_Timeline_Table, locals>>

StageStarted ==
    /\ pc = "call"
    /\ callIdx \in DOMAIN stages_to_process
    /\ LET k == StageOrder[callIdx]
       IN  /\ process_decorator(stages_to_process[callIdx])
           /\ pc' = StageEntry(k)
           /\ log' = Append(log, <<"started", k>>)
    /\ loc1' = Loc1Start /\ loc2' = Loc2Start
    /\ loc3' = Loc3Start /\ loc4' = Loc4Start
    /\ UNCHANGED <<config, vote, callIdx, calls, since_delay, lookups, store>>

StageSkipped ==
    /\ pc = "call"
    /\ callIdx \in DOMAIN stages_to_process
    /\ LET k == StageOrder[callIdx]
       IN  /\ ~process_decorator(stages_to_process[callIdx])
           /\ pc' = IF callIdx = Len(StageOrder) THEN "done" ELSE "call"
           /\ callIdx' = callIdx + 1
           /\ log' = Append(log, <<"skipped", k>>)
    /\ UNCHANGED <<config, vote, calls, since_delay, lookups, store, locals>>

(* ------------- Stage 1: _collect_summoner_entries_by_tier -------------- *)

valid_tiers == {"CHALLENGER", "MASTER", "DIAMOND", "EMERALD", "PLATINUM", "GOLD",
                "SILVER", "BRONZE", "IRON"}
\* faulty variant of valid_divisions: a fifth division is accepted
valid_divisions_five == {"I", "II", "III", "IV", "V"}

valid_divisions == {"I", "II", "III", "IV"}

curr_collection_date == "today"

\* the first tier at or after t whose loop body does something: a tier other
\* than CHALLENGER runs nothing when divisions is empty
RECURSIVE TierFrom(_)
TierFrom(t) ==
    IF t > Len(tiers) THEN t
    ELSE IF tiers[t] = "CHALLENGER" \/ divisions # <<>> THEN t
    ELSE TierFrom(t + 1)

\* faulty variant of AfterLoop: the pagination starts over for the same pair
AfterLoop_stay(t, d) == [tierIdx |-> t, divIdx |-> d]

\* the (tier, division) whose pagination follows the one at (t, d)
AfterLoop(t, d) ==
    IF tiers[t] # "CHALLENGER" /\ d < Len(divisions)
    THEN [tierIdx |-> t, divIdx |-> d + 1]
    ELSE [tierIdx |-> TierFrom(t + 1), divIdx |-> 1]

\* what get_summoner_entries_by_tier can return for a page: None, an empty
\* list, a list of entries, or an envelope reporting a status other than 200
RosterPages(tier, division, rosters) ==
    {[kind |-> "none", entries |-> <<>>], [kind |-> "list", entries |-> <<>>],
     [kind |-> "envelope", entries |-> <<>>]}
    \cup {[kind |-> "list",
           entries |-> [n \in 1..Len(s) |->
                           [puuid |-> s[n], tier |-> tier, rank |-> division]]] :
             s \in rosters}

S1Validate ==
    /\ pc = "s1_validate"
    /\ IF Range(tiers) \subseteq valid_tiers /\ Range(divisions) \subseteq valid_divisions
       THEN IF TierFrom(1) > Len(tiers)
            THEN StageReturns(1) /\ UNCHANGED loc1
            ELSE /\ pc' = "s1_page"
                 /\ loc1' = [Loc1Start EXCEPT !.tierIdx = TierFrom(1)]
                 /\ UNCHANGED <<callIdx, log>>
       ELSE Crashes /\ UNCHANGED loc1
    /\ UNCHANGED <<config, vote, calls, since_delay, lookups, store, loc2, loc3, loc4>>

\* the pagination of the current (tier, division) ends
S1LoopEnds(l) ==
    LET next == AfterLoop(l.tierIdx, l.divIdx)
    IN  IF next.tierIdx > Len(tiers)
        THEN StageReturns(1) /\ loc1' = l
        ELSE /\ pc' = "s1_page"
             /\ loc1' = [l EXCEPT !.tierIdx = next.tierIdx, !.divIdx = next.divIdx,
                                  !.pages = 1]
             /\ UNCHANGED <<callIdx, log>>

\* one iteration of "while not stop" for the current tier (and division)
S1Page ==
    /\ pc = "s1_page"
    /\ LET tier == tiers[loc1.tierIdx]
           top == tier = "CHALLENGER"
           division == IF top THEN "I" ELSE divisions[loc1.divIdx]
       IN  \E raises \in upstream.raises :
           \E page \in RosterPages(tier, division, upstream.rosters) :
             \* a finite roster upstream, and a call that cannot fail for ever
             /\ raises => page.kind = "none" /\ loc1.pages <= MaxPages + 1
             /\ (page.kind = "list" /\ page.entries # <<>>) => loc1.pages <= MaxPages
             /\ ~raises => page.kind \in upstream.pageKinds
             /\ (~raises /\ loc1.pages <= MaxPages /\ TRUE \notin upstream.endsEarly)
                    => (page.kind = "list" /\ page.entries # <<>>)
             /\ calls' = calls \cup {<<1, "entries", <<tier, division, loc1.pages>>>>}
             /\ LET l == IF raises THEN [loc1 EXCEPT !.failed = TRUE]
                         ELSE [loc1 EXCEPT !.failed = FALSE,
                                           !.entriesBound = TRUE,
                                           !.summoner_entries = page.entries,
                                           !.entriesKind = page.kind]
                    data == [n \in 1..Len(l.summoner_entries) |->
                               [puuid |-> l.summoner_entries[n].puuid,
                                current_tier |-> l.summoner_entries[n].tier,
                                current_division |-> l.summoner_entries[n].rank,
                                date_collected |-> curr_collection_date]]
                IN  IF ~l.entriesBound
                    THEN \* the except handler reads a name that was never assigned
                         /\ Crashes /\ loc1' = l
                         /\ since_delay' = AfterCall(since_delay)
                         /\ UNCHANGED Summoners_Table
                    ELSE IF l.entriesKind = "none" \/
                            (l.entriesKind = "list" /\ l.summoner_entries = <<>>)
                    THEN /\ S1LoopEnds(l)
                         /\ since_delay' = AfterCall(since_delay)
                         /\ UNCHANGED Summoners_Table
                    ELSE IF l.entriesKind = "envelope"
                    THEN /\ since_delay' = AfterCall(since_delay)
                         /\ IF top
                            THEN \* iterating the envelope: summoner["puuid"] on a key
                                 /\ Crashes /\ loc1' = l
                                 /\ UNCHANGED Summoners_Table
                            ELSE S1LoopEnds(l) /\ UNCHANGED Summoners_Table
                    ELSE /\ Summoners_Table' =
                                InsertOrIgnore("Summoners_Table", Summoners_Table, data)
                         /\ IF page_limit # -1 /\ page_limit = l.pages
                            THEN /\ S1LoopEnds(l)
                                 /\ since_delay' = AfterCall(since_delay)
                            ELSE \* pages += 1, then time.sleep
                                 /\ loc1' = [l EXCEPT !.pages = @ + 1]
                                 /\ since_delay' = 0
                                 /\ UNCHANGED <<pc, callIdx, log>>
    /\ UNCHANGED <<config, vote, lookups, tables_exist, Match_ID_Table, Match_Data_Teams_Table,
                   Match_Data_Participants_Table, Match_Timeline_Table,
                   loc2, loc3, loc4>>

(* ----------------- Stage 2: _collect_match_id_by_puuid ----------------- *)

S2Select ==
    /\ pc = "s2_select"
    /\ LET puuid_list == [n \in 1..Len(Summoners_Table) |-> Summoners_Table[n].puuid]
       IN  /\ loc2' = [Loc2Start EXCEPT !.puuid_list = puuid_list]
           /\ IF puuid_list = <<>> THEN StageReturns(2)
              ELSE pc' = "s2_player" /\ UNCHANGED <<callIdx, log>>
    /\ UNCHANGED <<config, vote, calls, since_delay, lookups, store, loc1, loc3, loc4>>

\* one iteration of "for count, puuid in enumerate(puuid_list)"
S2Player ==
    /\ pc = "s2_player"
    /\ LET puuid_str == loc2.puuid_list[loc2.count + 1]
       IN  \E raises \in upstream.raises :
           \E ids \in upstream.matchLists :
             /\ raises => ids = CHOOSE l \in upstream.matchLists : TRUE
             /\ calls' = calls \cup {<<2, "matchIds", puuid_str>>}
             \* time.sleep comes first in the iteration
             /\ since_delay' = AfterCall(0)
             /\ LET l == IF raises THEN [loc2 EXCEPT !.failed = TRUE]
                         ELSE [loc2 EXCEPT !.failed = FALSE,
                                           !.idsBound = TRUE, !.temp_match_ids = ids]
                    data == l.data \o [n \in 1..Len(l.temp_match_ids) |->
                                [matchId |-> l.temp_match_ids[n], puuid |-> puuid_str]]
                    flushed == PlainInsert("Match_ID_Table", Match_ID_Table, data)
                    after == [l EXCEPT !.data = data, !.count = @ + 1,
                                       !.submitted =
                                           IF PyMod(loc2.count, batch_insert_limit) = 0
                                           THEN Len(data) ELSE @]
                IN  IF ~l.idsBound \/ batch_insert_limit = 0
                    THEN \* NameError on temp_match_ids, or ZeroDivisionError
                         /\ Crashes
                         /\ loc2' = IF l.idsBound THEN [l EXCEPT !.data = data] ELSE l
                         /\ UNCHANGED Match_ID_Table
                    ELSE /\ Match_ID_Table' =
                                IF PyMod(loc2.count, batch_insert_limit) = 0
                                THEN flushed.rows ELSE Match_ID_Table
                         /\ loc2' = after
                         /\ IF after.count = Len(loc2.puuid_list) THEN StageReturns(2)
                            ELSE UNCHANGED <<pc, callIdx, log>>
    /\ UNCHANGED <<config, vote, lookups, tables_exist, Summoners_Table, Match_Data_Teams_Table,
                   Match_Data_Participants_Table, Match_Timeline_Table,
                   loc1, loc3, loc4>>

(* --------------- Stage 3: _collect_match_data_by_matchId --------------- *)

\* the match detail payloads: the participants in order (info.participants and
\* metadata.participants name the same players) and the two teams in order.
\* The first, third, ... participant plays for team 100, the others for 200.
\* The n-th participant has earned 300 * n gold.
MatchDetails(lists, teamOrders, infos) ==
    {[participants |-> [n \in 1..Len(s) |->
                           [puuid |-> s[n],
                            teamId |-> IF n % 2 = 1 THEN 100 ELSE 200,
                            teamPosition |-> PositionNames[n],
                            goldEarned |-> 300 * n]],
      teams |-> t,
      info |-> i] :
        s \in lists, t \in teamOrders, i \in infos}

\* info.teams with team 100 first: a and b are the dragon kills of 100 and 200
TeamsInOrder(a, b) ==
    <<[teamId |-> 100, dragonKills |-> a], [teamId |-> 200, dragonKills |-> b]>>

\* info.teams lists the two sides, in either order
TeamOrders == {TeamsInOrder(4, 3), <<TeamsInOrder(4, 3)[2], TeamsInOrder(4, 3)[1]>>}

\* info.gameDuration and info.gameEndTimestamp of a half-hour game
DefaultInfo == [gameDuration |-> 1800, gameEndTimestamp |-> 1]

\* faulty variant of dragonSoul: the flag needs more than 4 kills
dragonSoul_above4(dragonKills) == IF dragonKills <= 4 THEN FALSE ELSE TRUE

\* dragonSoul1 = False if dragonKills1 < 4 else True
dragonSoul(dragonKills) == IF dragonKills < 4 THEN FALSE ELSE TRUE

\* The model keeps the exact quotient num / den of every float.
\* faulty variant of game_duration: seconds are assumed on both branches
game_duration_always60(info) == [num |-> info.gameDuration, den |-> 60]

\* game_duration: gameDuration / 60 when gameEndTimestamp is there (and not 0),
\* gameDuration * 0.1 / 60 otherwise
game_duration(info) ==
    IF info.gameEndTimestamp # NoneNum /\ info.gameEndTimestamp # 0
    THEN [num |-> info.gameDuration, den |-> 60]
    ELSE [num |-> info.gameDuration, den |-> 600]

\* gold_per_minute = participant["goldEarned"] / game_duration
gold_per_minute(goldEarned, duration) ==
    [num |-> goldEarned * duration.den, den |-> duration.num]

\* faulty variant of TeamRows: both rows are built from teams_data[0]
TeamRows_team1_twice(match_id, match_data, game_tier) ==
    LET team1 == match_data.teams[1]
        team2 == match_data.teams[1]
    IN  <<[matchId |-> match_id, dragonKills |-> team1.dragonKills,
           dragonSoul |-> dragonSoul(team1.dragonKills),
           teamId |-> team1.teamId, gameTier |-> game_tier],
          [matchId |-> match_id, dragonKills |-> team2.dragonKills,
           dragonSoul |-> dragonSoul(team2.dragonKills),
           teamId |-> team2.teamId, gameTier |-> game_tier]>>

\* the two rows appended to data_teams: team1 is teams_data[0], team2 is
\* teams_data[1]
TeamRows(match_id, match_data, game_tier) ==
    LET team1 == match_data.teams[1]
        team2 == match_data.teams[2]
    IN  <<[matchId |-> match_id, dragonKills |-> team1.dragonKills,
           dragonSoul |-> dragonSoul(team1.dragonKills),
           teamId |-> team1.teamId, gameTier |-> game_tier],
          [matchId |-> match_id, dragonKills |-> team2.dragonKills,
           dragonSoul |-> dragonSoul(team2.dragonKills),
           teamId |-> team2.teamId, gameTier |-> game_tier]>>

\* the rows appended to data_participants, one per participant
ParticipantRows(match_id, match_data, game_tier) ==
    [n \in 1..Len(match_data.participants) |->
        [puuId |-> match_data.participants[n].puuid, matchId |-> match_id,
         teamId |-> match_data.participants[n].teamId, gameTier |-> game_tier,
         goldPerMinute |-> gold_per_minute(match_data.participants[n].goldEarned,
                                           game_duration(match_data.info)),
         teamPosition |-> match_data.participants[n].teamPosition]]

S3Select ==
    /\ pc = "s3_select"
    /\ LET match_ids == [n \in 1..Len(Match_ID_Table) |-> Match_ID_Table[n].matchId]
       IN  /\ loc3' = [Loc3Start EXCEPT !.match_ids = match_ids]
           /\ IF match_ids = <<>> THEN StageReturns(3)
              ELSE pc' = "s3_match" /\ UNCHANGED <<callIdx, log>>
    /\ UNCHANGED <<config, vote, calls, since_delay, lookups, store, loc1, loc2, loc4>>

\* the index at which the loop over match_ids is left
s3_break_index == 1

\* One iteration of "for i, match_id in enumerate(match_ids)". The loop runs
\* inside try/except Exception: any exception ends the loop and the stage.
S3Match ==
    /\ pc = "s3_match"
    \* time.sleep precedes the fetch, and each lookup of _get_majority_tier
    /\ since_delay' = AfterCall(0)
    /\ LET match_id == loc3.match_ids[loc3.i + 1]
       IN  \E raises \in upstream.raises :
           \E match_data \in MatchDetails(upstream.participants, upstream.teamOrders,
                                          upstream.infos) :
           \E outcomes \in [1..Len(match_data.participants) -> upstream.tierOutcomes] :
             /\ raises =>
                  /\ match_data = CHOOSE d \in MatchDetails(upstream.participants,
                                                            upstream.teamOrders,
                                                            upstream.infos) : TRUE
                  /\ outcomes = CHOOSE o \in [1..Len(match_data.participants) ->
                                                upstream.tierOutcomes] : TRUE
             /\ LET game_tier == _get_majority_tier(outcomes)
                    data_teams == loc3.data_teams \o TeamRows(match_id, match_data, game_tier)
                    data_participants ==
                        loc3.data_participants \o
                        ParticipantRows(match_id, match_data, game_tier)
                    fetched == [loc3 EXCEPT !.match_data = match_data]
                    buffered == [fetched EXCEPT
                                    !.data_teams = data_teams,
                                    !.game_duration = game_duration(match_data.info),
                                    !.data_participants = data_participants]
                    flush == PyMod(loc3.i, batch_insert_limit) = 0
                IN  IF raises
                    THEN /\ calls' = calls \cup {<<3, "match", match_id>>}
                         /\ StageReturns(3)
                         /\ UNCHANGED <<loc3, Match_Data_Teams_Table,
                                        Match_Data_Participants_Table>>
                    ELSE
                    /\ calls' = calls \cup {<<3, "match", match_id>>} \cup
                                {<<3, "tier", match_data.participants[n].puuid>> :
                                     n \in IF outcomes[1] = LookupFails THEN {1}
                                           ELSE 1..Len(match_data.participants)}
                    /\ IF game_tier = Raised
                       THEN /\ StageReturns(3)
                            /\ loc3' = fetched
                            /\ UNCHANGED <<Match_Data_Teams_Table,
                                           Match_Data_Participants_Table>>
                       ELSE IF match_data.info.gameDuration = 0
                       THEN \* ZeroDivisionError in goldEarned / game_duration, after
                            \* the team rows were appended
                            /\ StageReturns(3)
                            /\ loc3' = [fetched EXCEPT
                                           !.data_teams = data_teams,
                                           !.game_duration = game_duration(match_data.info)]
                            /\ UNCHANGED <<Match_Data_Teams_Table,
                                           Match_Data_Participants_Table>>
                       ELSE IF loc3.i = s3_break_index \/ batch_insert_limit = 0
                       THEN \* "if i == 1: break", or ZeroDivisionError in the modulo
                            /\ StageReturns(3)
                            /\ loc3' = buffered
                            /\ UNCHANGED <<Match_Data_Teams_Table,
                                           Match_Data_Participants_Table>>
                       ELSE /\ Match_Data_Teams_Table' =
                                  IF flush
                                  THEN InsertOrIgnore("Match_Data_Teams_Table",
                                                      Match_Data_Teams_Table, data_teams)
                                  ELSE Match_Data_Teams_Table
                            /\ Match_Data_Participants_Table' =
                                  IF flush
                                  THEN InsertOrIgnore("Match_Data_Participants_Table",
                                                      Match_Data_Participants_Table,
                                                      data_participants)
                                  ELSE Match_Data_Participants_Table
                            /\ loc3' = [buffered EXCEPT !.i = @ + 1]
                            /\ IF loc3.i + 1 = Len(loc3.match_ids) THEN StageReturns(3)
                               ELSE UNCHANGED <<pc, callIdx, log>>
    /\ UNCHANGED <<config, vote, lookups, tables_exist, Summoners_Table, Match_ID_Table,
                   Match_Timeline_Table, loc1, loc2, loc4>>

(* ------------- Stage 4: _collect_match_timeline_by_matchId ------------- *)

S4Select ==
    /\ pc = "s4_select"
    /\ LET match_ids == DistinctMatchIds(Match_Data_Participants_Table)
       IN  /\ loc4' = [Loc4Start EXCEPT !.match_ids = match_ids]
           /\ IF match_ids = <<>> THEN StageReturns(4)
              ELSE pc' = "s4_fetch" /\ UNCHANGED <<callIdx, log>>
    /\ UNCHANGED <<config, vote, calls, since_delay, lookups, store, loc1, loc2, loc3>>

\* get_match_timestamps_from_matcId and the participant_ids dict; the call is
\* in no try block
S4Fetch ==
    /\ pc = "s4_fetch"
    /\ LET id == loc4.match_ids[loc4.iter_ + 1]
       IN  /\ calls' = calls \cup {<<4, "timeline", id>>}
           /\ since_delay' = AfterCall(since_delay)
           /\ \/ TRUE \in upstream.raises /\ Crashes /\ UNCHANGED loc4
              \/ \E puuids \in upstream.timelineParticipants :
                   /\ loc4' = [loc4 EXCEPT !.participant_ids = ParticipantIds(puuids),
                                           !.frame = NoFrame, !.frameNo = 0,
                                           !.eventsSeen = 0]
                   /\ pc' = "s4_frames"
                   /\ UNCHANGED <<callIdx, log>>
    /\ UNCHANGED <<config, vote, lookups, store, loc1, loc2, loc3>>

\* one iteration of "for frame in data['info']['frames']"
S4Frame ==
    /\ pc = "s4_frames"
    /\ loc4.frameNo < MaxFrames
    /\ LET id == loc4.match_ids[loc4.iter_ + 1]
           f == loc4.frameNo + 1
       IN  \E events \in FrameEventLists(f, MaxEvents - loc4.eventsSeen,
                                         upstream.eventShapes) :
             LET frame == [timestamp |-> FrameTimestamp(f), events |-> events,
                           participantFrames |->
                               ParticipantFrames(f, Cardinality(DOMAIN loc4.participant_ids) - 1)]
                 done == FrameBody([data_events |-> loc4.data_events, ev |-> loc4.ev,
                                    lookups |-> lookups, status |-> "run"],
                                   frame, id, loc4.participant_ids,
                                   Match_Data_Participants_Table, eventTypesToConsider)
             IN  /\ loc4' = [loc4 EXCEPT !.frame = frame, !.frameNo = f,
                                         !.eventsSeen = @ + Len(events),
                                         !.data_events = done.data_events,
                                         !.ev = done.ev]
                 /\ lookups' = done.lookups
                 /\ IF done.status = "raise" THEN Crashes
                    ELSE UNCHANGED <<pc, callIdx, log>>
    /\ UNCHANGED <<config, vote, calls, since_delay, store, loc1, loc2, loc3>>

\* the index at which the loop over match_ids is left
s4_break_index == 0

\* the end of the loop body, once the frames are done: "if iter_ == 0: break",
\* then the flush "if iter_ % self.batch_insert_limit"
S4EndMatch ==
    /\ pc = "s4_frames"
    /\ IF loc4.iter_ = s4_break_index
       THEN StageReturns(4) /\ UNCHANGED <<loc4, Match_Timeline_Table>>
       ELSE IF batch_insert_limit = 0
       THEN Crashes /\ UNCHANGED <<loc4, Match_Timeline_Table>>
       ELSE /\ Match_Timeline_Table' =
                  IF PyMod(loc4.iter_, batch_insert_limit) # 0
                  THEN InsertOrIgnore("Match_Timeline_Table", Match_Timeline_Table,
                                      loc4.data_events)
                  ELSE Match_Timeline_Table
            /\ loc4' = [loc4 EXCEPT !.iter_ = @ + 1]
            /\ IF loc4.iter_ + 1 = Len(loc4.match_ids) THEN StageReturns(4)
               ELSE pc' = "s4_fetch" /\ UNCHANGED <<callIdx, log>>
    /\ UNCHANGED <<config, vote, calls, since_delay, lookups, tables_exist, Summoners_Table, Match_ID_Table,
                   Match_Data_Teams_Table, Match_Data_Participants_Table,
                   loc1, loc2, loc3>>

(* --------------------------- specifications ---------------------------- *)

\* a store no run has written to
FreshStore ==
    /\ tables_exist = FALSE
    /\ Summoners_Table = <<>>
    /\ Match_ID_Table = <<>>
    /\ Match_Data_Teams_Table = <<>>
    /\ Match_Data_Participants_Table = <<>>
    /\ Match_Timeline_Table = <<>>

\* start_pipeline is about to run
AtStart ==
    /\ pc = "start"
    /\ callIdx = 1
    /\ log = <<>>
    /\ calls = {}
    /\ since_delay = 0
    /\ lookups = {}
    /\ NoLocals
    /\ vote = NoVote

\* pageKinds: the kinds of roster page the API returns; endsEarly: {TRUE} when
\* a roster may end before page MaxPages, {FALSE} when every page up to
\* MaxPages holds entries.
\* Every answer the API can give within the bounds, for matches of half an
\* hour in which team 100 killed 4 dragons and team 200 killed 3 (Init3Rows
\* varies these numbers).
AnyUpstream ==
    [raises |-> BOOLEAN,
     rosters |-> DistinctSeqsUpTo(PUUIDS, 1, MaxPlayers),
     pageKinds |-> {"none", "list", "envelope"},
     endsEarly |-> {TRUE},
     matchLists |-> DistinctSeqsUpTo(MATCHIDS, 0, MaxMatches),
     participants |-> DistinctSeqsUpTo(PUUIDS, 1, MaxPlayers),
     teamOrders |-> TeamOrders,
     infos |-> {DefaultInfo},
     tierOutcomes |-> TierOutcomes,
     timelineParticipants |-> DistinctSeqsUpTo(PUUIDS, 1, MaxPlayers),
     eventShapes |-> EventShapes]

\* An upstream whose data is one consistent data set: every roster page, match
\* and timeline lists all the players, every history all the matches. Each
\* call can still raise, and a tier lookup can still return nothing.
AllPlayers == [n \in 1..MaxPlayers |-> PuuidNames[n]]
AllMatches == [n \in 1..MaxMatches |-> MatchNames[n]]
ConsistentUpstream ==
    [raises |-> BOOLEAN,
     rosters |-> {AllPlayers},
     pageKinds |-> {"none", "list", "envelope"},
     endsEarly |-> {TRUE},
     matchLists |-> {AllMatches},
     participants |-> {AllPlayers},
     teamOrders |-> {TeamsInOrder(4, 3)},
     infos |-> {DefaultInfo},
     tierOutcomes |-> {"GOLD", NoTier},
     timelineParticipants |-> {AllPlayers},
     eventShapes |-> {[type |-> "CHAMPION_KILL", killerId |-> 1, team |-> NoneNum],
                      [type |-> "BUILDING_KILL", killerId |-> 0, team |-> 100]}]

\* a run of the whole pipeline on a new database, for every choice of stages.
\* Stage 1 walks valid_tiers x valid_divisions; the run is shortened to the
\* apex tier, one tier with divisions, and one division: every further tier
\* and division repeats the same pagination loop.
Init ==
    /\ stages_to_process \in [1..4 -> {0, 1}]
    /\ batch_insert_limit = -1
    /\ eventTypesToConsider = DefaultEventTypes
    /\ page_limit = -1
    /\ tiers = <<"CHALLENGER", "GOLD">>
    /\ divisions = <<"I">>
    /\ upstream = ConsistentUpstream
    /\ FreshStore
    /\ AtStart

Next ==
    \/ CreateDatabase
    \/ CreateAllTables
    \/ StageStarted
    \/ StageSkipped
    \/ S1Validate
    \/ S1Page
    \/ S2Select
    \/ S2Player
    \/ S3Select
    \/ S3Match
    \/ S4Select
    \/ S4Fetch
    \/ S4Frame
    \/ S4EndMatch

Spec == Init /\ [][Next]_vars


(* --- construction with any stages_to_process, then start_pipeline --- *)

\* RiotPipeline(..., stages_to_process = any tuple of up to MaxFlags values)
Init0 ==
    /\ stages_to_process \in SeqsUpTo({0, 1, 2}, MaxFlags)
    /\ batch_insert_limit = -1
    /\ eventTypesToConsider = DefaultEventTypes
    /\ page_limit = -1
    /\ tiers = <<"CHALLENGER", "GOLD">>
    /\ divisions = <<"I">>
    /\ upstream = ConsistentUpstream
    /\ FreshStore
    /\ pc = "construct"
    /\ callIdx = 1
    /\ log = <<>>
    /\ calls = {}
    /\ since_delay = 0
    /\ lookups = {}
    /\ NoLocals
    /\ vote = NoVote

Next0 ==
    \/ Construct
    \/ FlagMissing
    \/ Next

Spec0 == Init0 /\ [][Next0]_vars

(* --- a run on the database an earlier run left --- *)

\* the player lists that keep the order of AllPlayers
InOrder(s) ==
    \A a, b \in 1..Len(s) : a < b =>
        \E c, d \in 1..MaxPlayers : c < d /\ PuuidNames[c] = s[a] /\ PuuidNames[d] = s[b]
OrderedPlayerLists == {s \in DistinctSeqsUpTo(PUUIDS, 1, MaxPlayers) : InOrder(s)}

\* the database after a run of Stages 1 and 2: every player on the roster, and
\* the first `count` matches, found through the first player
StoreAfterStage2(count) ==
    /\ tables_exist = TRUE
    /\ Summoners_Table =
           [n \in 1..MaxPlayers |->
               [puuid |-> PuuidNames[n], current_tier |-> "GOLD",
                current_division |-> "I", date_collected |-> "earlier"]]
    /\ Match_ID_Table =
           [n \in 1..count |-> [matchId |-> MatchNames[n], puuid |-> PuuidNames[1]]]
    /\ Match_Timeline_Table = <<>>

\* ... and after Stage 3 as well, which wrote the first match with the given
\* participants
StoreAfterStage3(count, players) ==
    LET match_data == CHOOSE d \in MatchDetails({players}, {TeamsInOrder(4, 3)},
                                                {DefaultInfo}) : TRUE
    IN  /\ StoreAfterStage2(count)
        /\ Match_Data_Teams_Table = TeamRows(MatchNames[1], match_data, "GOLD")
        /\ Match_Data_Participants_Table =
               ParticipantRows(MatchNames[1], match_data, "GOLD")

DefaultConfig ==
    /\ batch_insert_limit = -1
    /\ eventTypesToConsider = DefaultEventTypes
    /\ page_limit = -1
    /\ tiers = <<"CHALLENGER", "GOLD">>
    /\ divisions = <<"I">>

\* Stage 3 alone, on the matches an earlier run found, against any upstream
Init3 ==
    /\ stages_to_process = <<0, 0, 1, 0>>
    /\ DefaultConfig
    /\ upstream = AnyUpstream
    /\ \E count \in 1..MaxMatches : StoreAfterStage2(count)
    /\ Match_Data_Teams_Table = <<>>
    /\ Match_Data_Participants_Table = <<>>
    /\ AtStart

\* the same, with an upstream where no call raises and every lookup has a tier
Init3NoFailure ==
    /\ stages_to_process = <<0, 0, 1, 0>>
    /\ DefaultConfig
    /\ upstream = [AnyUpstream EXCEPT !.raises = {FALSE}, !.tierOutcomes = TIERS]
    /\ \E count \in 1..MaxMatches : StoreAfterStage2(count)
    /\ Match_Data_Teams_Table = <<>>
    /\ Match_Data_Participants_Table = <<>>
    /\ AtStart

\* Stage 3 without failures, for every dragon count of the two teams and every
\* game duration, with and without an end timestamp
Init3Rows ==
    /\ stages_to_process = <<0, 0, 1, 0>>
    /\ DefaultConfig
    /\ \E a, b \in DragonKillCounts, d \in GameDurations, e \in EndTimestamps :
          upstream = [AnyUpstream EXCEPT
                         !.raises = {FALSE}, !.tierOutcomes = {"GOLD"},
                         !.participants = {AllPlayers},
                         !.teamOrders = {TeamsInOrder(a, b)},
                         !.infos = {[gameDuration |-> d, gameEndTimestamp |-> e]}]
    /\ \E count \in 1..MaxMatches : StoreAfterStage2(count)
    /\ Match_Data_Teams_Table = <<>>
    /\ Match_Data_Participants_Table = <<>>
    /\ AtStart

Next3 ==
    \/ CreateDatabase
    \/ CreateAllTables
    \/ StageStarted
    \/ StageSkipped
    \/ S3Select
    \/ S3Match

Spec3 == Init3 /\ [][Next3]_vars

Spec3NoFailure == Init3NoFailure /\ [][Next3]_vars

Spec3Rows == Init3Rows /\ [][Next3]_vars

\* Stage 4 alone, on the participants an earlier run stored, against any
\* timeline of the players
Init4 ==
    /\ stages_to_process = <<0, 0, 0, 1>>
    /\ DefaultConfig
    /\ upstream = [AnyUpstream EXCEPT !.timelineParticipants = {AllPlayers}]
    /\ \E players \in OrderedPlayerLists : StoreAfterStage3(1, players)
    /\ AtStart

Next4 ==
    \/ CreateDatabase
    \/ CreateAllTables
    \/ StageStarted
    \/ StageSkipped
    \/ S4Select
    \/ S4Fetch
    \/ S4Frame
    \/ S4EndMatch

Spec4 == Init4 /\ [][Next4]_vars

\* the event_types_to_consider arguments: not given (the three kill types), the
\* three with one more type of the timeline API, and a list of two types
EventTypeLists ==
    {DefaultEventTypes, DefaultEventTypes \cup {OtherEventType},
     {"CHAMPION_KILL", OtherEventType}}

\* Stage 4 alone, for every event_types_to_consider
Init4Types ==
    /\ stages_to_process = <<0, 0, 0, 1>>
    /\ batch_insert_limit = -1
    /\ eventTypesToConsider \in EventTypeLists
    /\ page_limit = -1
    /\ tiers = <<"CHALLENGER", "GOLD">>
    /\ divisions = <<"I">>
    /\ upstream = [AnyUpstream EXCEPT !.timelineParticipants = {AllPlayers}]
    /\ \E players \in OrderedPlayerLists : StoreAfterStage3(1, players)
    /\ AtStart

Spec4Types == Init4Types /\ [][Next4]_vars

(* --- Stage 1 called with given tiers and divisions --- *)

\* a name _collect_summoner_entries_by_tier does not accept as a tier / division
OtherTier == "WOOD"
OtherDivision == "V"

TierLists == DistinctSeqsUpTo({"CHALLENGER", "GOLD", OtherTier}, 0, MaxTiers)
DivisionLists == DistinctSeqsUpTo({"I", "II", OtherDivision}, 0, MaxDivisions)

\* the first player's row, as an earlier run on another day stored it
EarlierSummoners ==
    <<[puuid |-> PuuidNames[1], current_tier |-> "SILVER",
       current_division |-> "IV", date_collected |-> "earlier"]>>

\* _collect_summoner_entries_by_tier(tiers, divisions) on a database with its
\* tables, empty or holding a row of an earlier run; Stages 2 to 4 are disabled
Init1 ==
    /\ stages_to_process = <<1, 0, 0, 0>>
    /\ batch_insert_limit = -1
    /\ eventTypesToConsider = DefaultEventTypes
    /\ page_limit = -1
    /\ tiers \in TierLists
    /\ divisions \in DivisionLists
    /\ upstream = [AnyUpstream EXCEPT !.rosters = {AllPlayers, <<PuuidNames[1]>>}]
    /\ tables_exist = TRUE
    /\ Summoners_Table \in {<<>>, EarlierSummoners}
    /\ Match_ID_Table = <<>>
    /\ Match_Data_Teams_Table = <<>>
    /\ Match_Data_Participants_Table = <<>>
    /\ Match_Timeline_Table = <<>>
    /\ pc = "call"
    /\ callIdx = 1
    /\ log = <<>>
    /\ calls = {}
    /\ since_delay = 0
    /\ lookups = {}
    /\ NoLocals
    /\ vote = NoVote

Next1 ==
    \/ StageStarted
    \/ StageSkipped
    \/ S1Validate
    \/ S1Page

\* the program is one thread that keeps running until it returns or raises
Spec1 == Init1 /\ [][Next1]_vars /\ WF_vars(Next1)

(* --- Stage 2 alone, for every batch_insert_limit --- *)

\* the batch_insert_limit arguments: not given (-1), every player, every
\* second player, and the documented default passed explicitly
BatchLimits == {-1, 1, 2, 1000}

\* a match an earlier run found through the last player
EarlierMatchIds == <<[matchId |-> MatchNames[1], puuid |-> PuuidNames[MaxPlayers]]>>

\* _collect_match_id_by_puuid on the players an earlier Stage 1 stored, with an
\* empty match-id table or one holding a row of an earlier run
Init2 ==
    /\ stages_to_process = <<0, 1, 0, 0>>
    /\ batch_insert_limit \in BatchLimits
    /\ eventTypesToConsider = DefaultEventTypes
    /\ page_limit = -1
    /\ tiers = <<"CHALLENGER", "GOLD">>
    /\ divisions = <<"I">>
    /\ upstream = AnyUpstream
    /\ tables_exist = TRUE
    /\ \E count \in 1..MaxPlayers :
          Summoners_Table =
             [n \in 1..count |->
                 [puuid |-> PuuidNames[n], current_tier |-> "GOLD",
                  current_division |-> "I", date_collected |-> "earlier"]]
    /\ Match_ID_Table \in {<<>>, EarlierMatchIds}
    /\ Match_Data_Teams_Table = <<>>
    /\ Match_Data_Participants_Table = <<>>
    /\ Match_Timeline_Table = <<>>
    /\ pc = "call"
    /\ callIdx = 1
    /\ log = <<>>
    /\ calls = {}
    /\ since_delay = 0
    /\ lookups = {}
    /\ NoLocals
    /\ vote = NoVote

Next2 ==
    \/ StageStarted
    \/ StageSkipped
    \/ S2Select
    \/ S2Player

Spec2 == Init2 /\ [][Next2]_vars

(* --- Stage 1 run twice against an upstream that answers the same way --- *)

\* how many times Stage 1 has been entered, from the logger's records
RECURSIVE Stage1Starts(_)
Stage1Starts(records) ==
    IF records = <<>> THEN 0
    ELSE Stage1Starts(Tail(records)) + (IF Head(records) = <<"started", 1>> THEN 1 ELSE 0)

\* start_pipeline once more, by a new process, on the database file the first
\* run left: the tables exist and keep their rows, the locals are new
RunAgain ==
    /\ pc \in {"done", "crashed"}
    /\ Stage1Starts(log) < 2
    /\ pc' = "call"
    /\ callIdx' = 1
    /\ loc1' = Loc1Start /\ loc2' = Loc2Start
    /\ loc3' = Loc3Start /\ loc4' = Loc4Start
    /\ since_delay' = 0
    /\ UNCHANGED <<config, vote, log, calls, lookups, store>>

\* valid tiers and divisions; an upstream in which every (tier, division) has
\* the same MaxPages pages of one roster followed by an empty page, and in
\* which either no call fails or every call fails
Init1Twice ==
    /\ stages_to_process = <<1, 0, 0, 0>>
    /\ batch_insert_limit = -1
    /\ eventTypesToConsider = DefaultEventTypes
    /\ page_limit = -1
    /\ tiers \in {t \in TierLists : Range(t) \subseteq valid_tiers}
    /\ divisions \in {d \in DivisionLists : Range(d) \subseteq valid_divisions}
    /\ \E roster \in DistinctSeqsUpTo(PUUIDS, 1, MaxPlayers) : \E fails \in BOOLEAN :
          upstream = [AnyUpstream EXCEPT !.rosters = {roster}, !.raises = {fails},
                                         !.pageKinds = {"list"}, !.endsEarly = {FALSE}]
    /\ tables_exist = TRUE
    /\ Summoners_Table \in {<<>>, EarlierSummoners}
    /\ Match_ID_Table = <<>>
    /\ Match_Data_Teams_Table = <<>>
    /\ Match_Data_Participants_Table = <<>>
    /\ Match_Timeline_Table = <<>>
    /\ pc = "call"
    /\ callIdx = 1
    /\ log = <<>>
    /\ calls = {}
    /\ since_delay = 0
    /\ lookups = {}
    /\ NoLocals
    /\ vote = NoVote

Next1Twice ==
    \/ Next1
    \/ RunAgain

Spec1Twice == Init1Twice /\ [][Next1Twice]_vars

(* --- _get_majority_tier on its own, one lookup at a time --- *)

InitTier ==
    /\ stages_to_process = <<0, 0, 1, 0>>
    /\ DefaultConfig
    /\ upstream = AnyUpstream
    /\ FreshStore
    /\ callIdx = 3
    /\ log = <<>>
    /\ calls = {}
    /\ since_delay = 0
    /\ lookups = {}
    /\ NoLocals
    /\ pc = "tier_loop"
    /\ \E outcomes \in SeqsUpTo(TierOutcomes, MaxVotes) :
           vote = [NoVote EXCEPT !.outcomes = outcomes]

\* one iteration of "for puuid in player_puuids"
VoteLookup ==
    /\ pc = "tier_loop"
    /\ vote.done < Len(vote.outcomes)
    /\ LET st == TierLoopBody(vote.st, vote.outcomes[vote.done + 1])
       IN  /\ vote' = [vote EXCEPT !.done = @ + 1, !.st = st,
                                   !.result = IF st.raised THEN Raised ELSE @]
           /\ pc' = IF st.raised THEN "tier_done" ELSE pc
    /\ since_delay' = AfterCall(0)
    /\ UNCHANGED <<config, callIdx, log, calls, lookups, store, locals>>

\* return max(tier_freq_dict, key=tier_freq_dict.get)
VoteReturn ==
    /\ pc = "tier_loop"
    /\ vote.done = Len(vote.outcomes)
    /\ vote' = [vote EXCEPT !.result = DictMaxByCount(vote.st.tier_freq_dict)]
    /\ pc' = "tier_done"
    /\ UNCHANGED <<config, callIdx, log, calls, since_delay, lookups, store, locals>>

NextTier == VoteLookup \/ VoteReturn

SpecTier == InitTier /\ [][NextTier]_vars


(* ============================== claims ================================ *)

\* the stage a program position belongs to (0: none)
StageOfPc ==
    CASE pc \in {"s1_validate", "s1_page"} -> 1
      [] pc \in {"s2_select", "s2_player"} -> 2
      [] pc \in {"s3_select", "s3_match"} -> 3
      [] pc \in {"s4_select", "s4_fetch", "s4_frames"} -> 4
      [] OTHER -> 0

\* what the log holds after a run that no exception ended: the schema, then
\* for Stage 1, 2, 3, 4 in this order a start and a return, or a skip
RECURSIVE FullLog(_, _)
FullLog(flags, k) ==
    IF k = 0 THEN <<<<"schema", 0>>>>
    ELSE FullLog(flags, k - 1) \o
         (IF flags[k] = 1 THEN <<<<"started", k>>, <<"returned", k>>>>
          ELSE <<<<"skipped", k>>>>)

IsPrefix(s, t) == Len(s) <= Len(t) /\ SubSeq(t, 1, Len(s)) = s

\* C1: in every run of start_pipeline the schema is created before any stage
\* runs, and the enabled stages run in the order 1, 2, 3, 4: a stage starts only
\* after every earlier enabled stage has returned, and no stage runs twice.
C1_StagesRunInOrder ==
    /\ IsPrefix(log, FullLog(stages_to_process, 4))
    /\ StageOfPc # 0 =>
          /\ tables_exist
          /\ log # <<>> /\ log[Len(log)] = <<"started", StageOfPc>>

C1_Witness ==
    /\ pc = "done"
    /\ stages_to_process = <<1, 1, 1, 1>>
    /\ log = FullLog(stages_to_process, 4)
    /\ Match_Data_Participants_Table # <<>>

\* C2: a stage whose flag is 0 issues no API call and touches neither the store
\* nor any buffer, its body is never entered, and the stages whose flag is 1
\* still run, in order.
C2_DisabledStageDoesNothing ==
    /\ [][(pc = "call" /\ stages_to_process[callIdx] = 0) =>
            /\ UNCHANGED <<calls, lookups, store, locals>>
            /\ pc' \in {"call", "done"}
            /\ log' = Append(log, <<"skipped", callIdx>>)]_vars
    /\ [](pc = "done" => log = FullLog(stages_to_process, 4))

C2_Witness ==
    /\ pc = "done"
    /\ stages_to_process = <<1, 0, 1, 0>>
    /\ <<"skipped", 2>> \in Range(log)
    /\ <<"returned", 3>> \in Range(log)
    /\ Summoners_Table # <<>>

\* a frame of the current match has been through the two loops of Stage 4
FrameProcessed == loc4.frameNo > 0 /\ pc # "crashed"

CurrentMatch == loc4.match_ids[loc4.iter_ + 1]

\* the store can resolve the actor of a kill event / of a frame sample
ActorStored(in_game_id) ==
    \E n \in 1..Len(Match_Data_Participants_Table) :
        /\ Match_Data_Participants_Table[n].puuId = DictGet(loc4.participant_ids, in_game_id)
        /\ Match_Data_Participants_Table[n].matchId = CurrentMatch

AllowedKillEvent(e) == e.type \in eventTypesToConsider /\ e.type \in KillEventTypes

EventHasRow(e, rows) ==
    \E n \in 1..Len(rows) :
        /\ rows[n].event = e.type
        /\ rows[n].timestamp = e.timestamp
        /\ rows[n].inGameId = e.killerId

SampleHasRow(sample, timestamp, rows) ==
    \E n \in 1..Len(rows) :
        /\ rows[n].event = "POSITION"
        /\ rows[n].timestamp = timestamp
        /\ rows[n].inGameId = sample.participantId

\* C3: when the actor of an allow-listed event cannot be resolved, only that
\* event is dropped: every allow-listed event of the frame whose actor is the
\* minion or is stored has its row, wherever it stands in the event list.
C3_OtherEventsKeepTheirRows ==
    FrameProcessed =>
        \A j \in 1..Len(loc4.frame.events) :
            LET e == loc4.frame.events[j]
            IN  (AllowedKillEvent(e) /\ (e.killerId = 0 \/ ActorStored(e.killerId)))
                    => EventHasRow(e, loc4.data_events)

\* C4: when a participant's frame sample cannot be resolved, only that sample is
\* skipped: every sample of the frame whose participant is stored has its
\* position row.
C4_OtherSamplesKeepTheirRows ==
    FrameProcessed =>
        \A n \in 1..Len(loc4.frame.participantFrames) :
            LET sample == loc4.frame.participantFrames[n]
            IN  ActorStored(sample.participantId)
                    => SampleHasRow(sample, loc4.frame.timestamp, loc4.data_events)

\* C5: an allow-listed event whose killer id is 0 has the minion as its actor,
\* causes no store query, is not dropped, and its row has teamPosition "".
C5_MinionEventKept ==
    /\ \A q \in lookups : q[1] # "Minion"
    /\ FrameProcessed =>
          \A j \in 1..Len(loc4.frame.events) :
              LET e == loc4.frame.events[j]
              IN  (AllowedKillEvent(e) /\ e.killerId = 0) =>
                      \E n \in 1..Len(loc4.data_events) :
                          /\ loc4.data_events[n].event = e.type
                          /\ loc4.data_events[n].timestamp = e.timestamp
                          /\ loc4.data_events[n].puuId = "Minion"
                          /\ loc4.data_events[n].teamPosition = ""

\* C6: the row of a building-kill event carries the teamId of the event payload
\* (the team that lost the building), whoever the killer is.
C6_BuildingKillTeamFromPayload ==
    FrameProcessed =>
        \A j \in 1..Len(loc4.frame.events) : \A n \in 1..Len(loc4.data_events) :
            LET e == loc4.frame.events[j]
                row == loc4.data_events[n]
            IN  (e.type = "BUILDING_KILL" /\ row.event = "BUILDING_KILL"
                 /\ row.timestamp = e.timestamp) => row.teamId = e.teamId

\* a building-kill row whose killer is stored with the other team, after one
\* whose killer is the minion
C6_Witness ==
    /\ FrameProcessed
    /\ \E m, n \in 1..Len(loc4.data_events) :
          /\ m < n
          /\ loc4.data_events[m].event = "BUILDING_KILL"
          /\ loc4.data_events[m].puuId = "Minion"
          /\ loc4.data_events[m].teamId \in TeamIds
          /\ loc4.data_events[n].event = "BUILDING_KILL"
          /\ \E r \in Range(Match_Data_Participants_Table) :
                /\ r.puuId = loc4.data_events[n].puuId
                /\ r.matchId = loc4.data_events[n].matchId
                /\ r.teamId # loc4.data_events[n].teamId

Stage4Returned == <<"returned", 4>> \in Range(log)

\* C7: once Stage 4 has returned, the timeline of every match with a stored
\* participant has been fetched, and every allow-listed event with a resolved
\* actor and every resolved sample is a row of Match_Timeline_Table.
C7_TimelineRowsStored ==
    Stage4Returned =>
        /\ \A m \in Range(DistinctMatchIds(Match_Data_Participants_Table)) :
              <<4, "timeline", m>> \in calls
        /\ \A j \in 1..Len(loc4.frame.events) :
              LET e == loc4.frame.events[j]
              IN  (AllowedKillEvent(e) /\ (e.killerId = 0 \/ ActorStored(e.killerId)))
                      => EventHasRow(e, Match_Timeline_Table)
        /\ \A n \in 1..Len(loc4.frame.participantFrames) :
              LET sample == loc4.frame.participantFrames[n]
              IN  ActorStored(sample.participantId)
                      => SampleHasRow(sample, loc4.frame.timestamp, Match_Timeline_Table)

Stage3Returned == <<"returned", 3>> \in Range(log)

RowsOfMatch(table, m) == {n \in 1..Len(table) : table[n].matchId = m}

\* C8: Stage 3 fetches the detail of every match id the table held when it
\* started, and when no call fails every one of them ends the stage with its
\* team rows and participant rows in the store.
C8_EveryMatchFetchedAndWritten ==
    Stage3Returned =>
        \A n \in 1..Len(loc3.match_ids) :
            /\ <<3, "match", loc3.match_ids[n]>> \in calls
            /\ RowsOfMatch(Match_Data_Teams_Table, loc3.match_ids[n]) # {}
            /\ RowsOfMatch(Match_Data_Participants_Table, loc3.match_ids[n]) # {}

\* C9: a match that Stage 3 has written to Match_Data_Teams_Table has exactly
\* two rows there, with different teamIds.
C9_TwoTeamRowsPerMatch ==
    \A m \in {Match_Data_Teams_Table[n].matchId : n \in 1..Len(Match_Data_Teams_Table)} :
        LET rows == RowsOfMatch(Match_Data_Teams_Table, m)
        IN  /\ Cardinality(rows) = 2
            /\ \A a, b \in rows :
                  a # b => Match_Data_Teams_Table[a].teamId # Match_Data_Teams_Table[b].teamId

\* Stage 3 has written a match whose payload lists team 200 before team 100
C9_Witness ==
    /\ Stage3Returned
    /\ Len(Match_Data_Teams_Table) = 2
    /\ Match_Data_Teams_Table[1].teamId = 200
    /\ Len(loc3.data_teams) = 4

VotesFor(t) == Cardinality({n \in 1..Len(vote.outcomes) : vote.outcomes[n] = t})
FirstVoteFor(t) == CHOOSE n \in 1..Len(vote.outcomes) :
                       vote.outcomes[n] = t /\ \A m \in 1..(n - 1) : vote.outcomes[m] # t

\* C10: when every lookup succeeds and at least one returns a tier, the tier
\* returned has the most votes, and among the tiers with the most votes it is
\* the one met first in participant order.
C10_MajorityTierIsFirstMaximum ==
    (/\ pc = "tier_done"
     /\ LookupFails \notin Range(vote.outcomes)
     /\ Range(vote.outcomes) \cap TIERS # {}) =>
        /\ vote.result \in Range(vote.outcomes) \cap TIERS
        /\ \A t \in Range(vote.outcomes) \cap TIERS :
              /\ VotesFor(t) <= VotesFor(vote.result)
              /\ (VotesFor(t) = VotesFor(vote.result) /\ t # vote.result)
                    => FirstVoteFor(vote.result) < FirstVoteFor(t)

\* votes GOLD:3, SILVER:2 with a SILVER vote first
C10_Witness ==
    /\ pc = "tier_done"
    /\ LookupFails \notin Range(vote.outcomes)
    /\ Len(vote.outcomes) = 5 /\ vote.outcomes[1] = "SILVER"
    /\ VotesFor("GOLD") = 3
    /\ VotesFor("SILVER") = 2
    /\ vote.result = "GOLD"


\* the count tier_freq_dict holds for tier t (0 when t is no key)
DictCount(d, t) == IF DictIndex(d, t) = {} THEN 0 ELSE d[CHOOSE n \in DictIndex(d, t) : TRUE].count

\* C11: when the lookups of a match's participants yield no tier at all (each
\* one fails or returns nothing), the majority vote ends with a no-tier-data
\* outcome of its own and raises no exception.
C11_NoTierDataIsReported ==
    (/\ pc = "tier_done"
     /\ vote.outcomes # <<>>
     /\ Range(vote.outcomes) \cap TIERS = {}) => vote.result # Raised

\* C12: a participant whose lookup fails casts no vote: after any number of
\* lookups the count of each tier is the number of participants whose own
\* lookup returned that tier.
C12_FailedLookupCastsNoVote ==
    ~vote.st.raised =>
        \A t \in TIERS :
            DictCount(vote.st.tier_freq_dict, t) =
                Cardinality({n \in 1..vote.done : vote.outcomes[n] = t})


\* C13: the game duration in minutes that goldPerMinute is computed with is
\* gameDuration / 60 when the payload has an end timestamp and gameDuration / 600
\* when it has none (30 and 3 minutes for gameDuration = 1800), and every
\* buffered participant row holds goldEarned divided by these minutes.
C13_GameDurationMinutes ==
    loc3.game_duration # NoDuration =>
        LET info == loc3.match_data.info
            minutes == loc3.game_duration
        IN  /\ info.gameEndTimestamp # NoneNum =>
                  /\ minutes.num * 60 = info.gameDuration * minutes.den
                  /\ info.gameDuration = 1800 => minutes.num = 30 * minutes.den
            /\ info.gameEndTimestamp = NoneNum =>
                  /\ minutes.num * 600 = info.gameDuration * minutes.den
                  /\ info.gameDuration = 1800 => minutes.num = 3 * minutes.den
            /\ \A n \in 1..Len(loc3.data_participants) :
                  \A k \in 1..Len(loc3.match_data.participants) :
                      LET row == loc3.data_participants[n]
                          participant == loc3.match_data.participants[k]
                      IN  row.puuId = participant.puuid =>
                              row.goldPerMinute.num * minutes.num =
                                  participant.goldEarned * minutes.den * row.goldPerMinute.den

\* a game of 1800 without end timestamp: 3 minutes, and 100 gold per minute
\* stored for the participant who earned 300
C13_Witness ==
    /\ loc3.match_data.info = [gameDuration |-> 1800, gameEndTimestamp |-> NoneNum]
    /\ loc3.game_duration.num = 3 * loc3.game_duration.den
    /\ \E n \in 1..Len(Match_Data_Participants_Table) :
          LET row == Match_Data_Participants_Table[n]
          IN  row.goldPerMinute.num = 100 * row.goldPerMinute.den

\* C14: in every team row Stage 3 builds or stores, dragonSoul is true exactly
\* when the team's dragon kills are at least 4.
C14_DragonSoulFromFourKills ==
    /\ \A n \in 1..Len(loc3.data_teams) :
          loc3.data_teams[n].dragonSoul <=> loc3.data_teams[n].dragonKills >= 4
    /\ \A n \in 1..Len(Match_Data_Teams_Table) :
          Match_Data_Teams_Table[n].dragonSoul <=> Match_Data_Teams_Table[n].dragonKills >= 4

\* a stored match whose teams killed 4 and 3 dragons
C14_Witness ==
    /\ Len(Match_Data_Teams_Table) = 2
    /\ Match_Data_Teams_Table[1].dragonKills = 4 /\ Match_Data_Teams_Table[1].dragonSoul
    /\ Match_Data_Teams_Table[2].dragonKills = 3 /\ ~Match_Data_Teams_Table[2].dragonSoul


\* the tier and division names Stage 1 accepts
NineTiers == {"CHALLENGER", "MASTER", "DIAMOND", "EMERALD", "PLATINUM", "GOLD",
              "SILVER", "BRONZE", "IRON"}
FourDivisions == {"I", "II", "III", "IV"}
ValidLists == Range(tiers) \subseteq NineTiers /\ Range(divisions) \subseteq FourDivisions

Stage1Over == <<"returned", 1>> \in Range(log) \/ pc = "crashed"

\* the step leaves the pagination of the current tier (and division) for the
\* next one, or for the end of the stage
PaginationEnds ==
    \/ pc' # "s1_page" /\ <<"returned", 1>> \in Range(log')
    \/ /\ pc' = "s1_page" /\ loc1'.pages = 1
       /\ \/ loc1'.tierIdx > loc1.tierIdx
          \/ loc1'.tierIdx = loc1.tierIdx /\ loc1'.divIdx = loc1.divIdx + 1

\* the step stays in the pagination of the current tier (and division)
PaginationGoesOn ==
    /\ pc' = "s1_page"
    /\ loc1'.tierIdx = loc1.tierIdx /\ loc1'.divIdx = loc1.divIdx
    /\ loc1'.pages = loc1.pages + 1

\* C15: for valid tiers and divisions Stage 1 terminates: a page that comes
\* back with zero entries ends the pagination of its tier (and division) and
\* the stage moves on to the next one; the stage stops short of its return only
\* when a call failed or returned an error envelope.
C15_Stage1Terminates ==
    /\ [][(pc = "s1_page" /\ ~loc1'.failed /\ loc1'.summoner_entries = <<>>
           /\ loc1'.entriesKind \in {"none", "list"})
            => (PaginationEnds /\ UNCHANGED store)]_vars
    /\ ValidLists => <>Stage1Over
    /\ [](pc = "crashed" /\ ValidLists => loc1.failed \/ loc1.entriesKind = "envelope")

\* Stage 1 has returned after paging through two tiers, one of them with two
\* divisions, up to the empty page after the last full one
C15_Witness ==
    /\ pc = "done"
    /\ Len(tiers) = 2 /\ Len(divisions) = 2
    /\ <<1, "entries", <<"GOLD", divisions[2], MaxPages + 1>>>> \in calls
    /\ <<1, "entries", <<"CHALLENGER", "I", MaxPages + 1>>>> \in calls
    /\ Len(Summoners_Table) = MaxPlayers

\* C16: a page whose API call fails adds no row to Summoners_Table and aborts
\* neither the tier nor the stage: the pagination of the tier goes on with the
\* next page.
C16_FailedPageOnlyLosesThatPage ==
    [][(pc = "s1_page" /\ loc1'.failed) => (PaginationGoesOn /\ UNCHANGED store)]_vars

\* C17: given a tier outside the nine valid tiers or a division outside the four
\* valid divisions, Stage 1 raises before it issues an API call or writes to
\* the store.
C17_InvalidListsFailFast ==
    /\ [](~ValidLists => calls = {} /\ pc \in {"call", "s1_validate", "crashed"})
    /\ [][~ValidLists => UNCHANGED store]_vars
    /\ ~ValidLists => <>(pc = "crashed" /\ log = <<<<"started", 1>>>>)

\* Stage 1 has raised on a list whose first tier is valid and second is not
C17_Witness ==
    /\ pc = "crashed"
    /\ Len(tiers) = 2 /\ tiers[1] \in NineTiers /\ tiers[2] \notin NineTiers
    /\ Range(divisions) \subseteq FourDivisions
    /\ calls = {}
    /\ since_delay = 0


\* stages_to_process is exactly four values, each 0 or 1
FourFlags ==
    Len(stages_to_process) = 4 /\ \A n \in 1..4 : stages_to_process[n] \in {0, 1}

\* C18: a stages_to_process that is not exactly four values, each 0 or 1, makes
\* the constructor raise ValueError, so that the pipeline never starts: no
\* stage runs, no API call is issued and the store is never created.
C18_InvalidFlagsRejected ==
    ~FourFlags => /\ pc \in {"construct", "value_error"}
                  /\ calls = {} /\ ~tables_exist /\ log = <<>>


\* the playerIds of the player table
PlayerIds == {Summoners_Table[n].puuid : n \in 1..Len(Summoners_Table)}

\* C19: with an upstream that answers every call as it did in the first run, no
\* step of a second run of Stage 1 changes the set of playerIds of the player
\* table or its row count: they stay what the first run left.
C19_SecondRunAddsNothing ==
    [][Stage1Starts(log) = 2 =>
          /\ {Summoners_Table'[n].puuid : n \in 1..Len(Summoners_Table')} = PlayerIds
          /\ Len(Summoners_Table') = Len(Summoners_Table)]_vars

\* the second run has fetched the pages again, which list players, and returned
C19_Witness ==
    /\ Stage1Starts(log) = 2
    /\ pc = "done"
    /\ FALSE \in upstream.raises
    /\ Cardinality(calls) >= 2
    /\ Cardinality(PlayerIds) = MaxPlayers


\* C20: the player table never holds two rows with one playerId, and no step
\* of the pipeline changes or removes a stored row: its tier, division and
\* collection date stay what the first insert wrote, also when a later page
\* lists the player under another tier or division, or on another day.
C20_PlayerRowsAreWrittenOnce ==
    /\ [](\A m, n \in 1..Len(Summoners_Table) :
            Summoners_Table[m].puuid = Summoners_Table[n].puuid => m = n)
    /\ [][/\ Len(Summoners_Table') >= Len(Summoners_Table)
          /\ \A n \in 1..Len(Summoners_Table) :
                Summoners_Table'[n] = Summoners_Table[n]]_vars

\* a page listing both players was inserted into a table that held the first
\* player's row of an earlier day: that row is as it was, the second is new
C20_Witness ==
    /\ Len(Summoners_Table) = 2
    /\ Summoners_Table[1] = EarlierSummoners[1]
    /\ Summoners_Table[2].puuid = PuuidNames[2]
    /\ Summoners_Table[2].date_collected = curr_collection_date
    /\ \E c \in calls : c[2] = "entries"


\* C21: the match-id table never holds two rows with one matchId, and no step
\* changes or removes a stored row: a match found again through another player
\* keeps the playerId of the row that was committed first.
C21_MatchStoredOnceFirstWriterWins ==
    /\ [](\A m, n \in 1..Len(Match_ID_Table) :
            Match_ID_Table[m].matchId = Match_ID_Table[n].matchId => m = n)
    /\ [][/\ Len(Match_ID_Table') >= Len(Match_ID_Table)
          /\ \A n \in 1..Len(Match_ID_Table) :
                Match_ID_Table'[n] = Match_ID_Table[n]]_vars

\* a match stored for one player was later discovered through another player,
\* and a flush with that second discovery has been submitted
C21_Witness ==
    /\ pc = "done"
    /\ \E n \in 1..Len(Match_ID_Table) : \E d \in 1..Len(loc2.data) :
          /\ loc2.data[d].matchId = Match_ID_Table[n].matchId
          /\ loc2.data[d].puuid # Match_ID_Table[n].puuid


\* the current step of Stage 2 submits its buffer to the store
S2Flushes ==
    /\ pc = "s2_player"
    /\ loc2'.count = loc2.count + 1
    /\ PyMod(loc2.count, batch_insert_limit) = 0

\* C22: a batch insert drops the rows whose primary key is stored and commits
\* every other row of the batch; for Stage 2: after a flush, every matchId of
\* the submitted batch is in the match-id table.
C22_BatchInsertsAreInsertIfAbsent ==
    [][S2Flushes =>
          \A d \in 1..Len(loc2'.data) :
              HasKey("Match_ID_Table", Match_ID_Table', loc2'.data[d])]_vars


\* C23: in Stage 2 a player whose match-id fetch fails adds no row to the
\* buffer, and the failure does not leave the stage: the loop goes on to the
\* next player or the stage returns.
C23_FailedFetchAddsNoMatchRef ==
    [][(pc = "s2_player" /\ loc2'.failed) =>
          /\ loc2'.data = loc2.data
          /\ pc' # "crashed"]_vars


\* Stage 2 has returned
Stage2Returned == <<"returned", 2>> \in Range(log)

\* C24: when Stage 2 has returned, every row of its buffer has been handed to
\* the store by some flush.
C24_NoBufferedRowLeftAtStageEnd ==
    Stage2Returned => loc2.submitted = Len(loc2.data)

\* the flush of the current step of Stage 2 is rejected by the store
S2FlushFails ==
    S2Flushes /\ ~InsertAll("Match_ID_Table", Match_ID_Table, loc2'.data).ok

\* C25: a flush that fails removes the rows of its batch from the buffer, so
\* that no later flush submits them again; for Stage 2: after a failed flush
\* the buffer is empty.
C25_FailedBatchIsDropped ==
    [][S2FlushFails => loc2'.data = <<>>]_vars

\* C29: Stage 2's buffer is bounded by the flush interval: after the flush at
\* player index k the buffer holds no row of a player of index at most k, so
\* that the next flush submits only rows of later players.
C29_BufferHoldsNoFlushedPlayer ==
    [][S2Flushes =>
          \A d \in 1..Len(loc2'.data) : \A n \in 1..(loc2.count + 1) :
              loc2'.data[d].puuid # loc2.puuid_list[n]]_vars


\* C26: between any two consecutive outbound API calls of a run a rate-limiter
\* delay elapses: no state is reached by two API calls without a time.sleep
\* between them.
C26_DelayBetweenApiCalls ==
    since_delay <= 1


\* the current iteration of Stage 3 ends without the participant rows of its
\* match: the fetch, the majority vote or the decoding of the match failed
S3MatchFails ==
    /\ pc = "s3_match"
    /\ loc3'.data_participants = loc3.data_participants

\* C27: in Stage 3 a failure on one match skips only that match: when further
\* matches are stored, the loop goes on with the next one.
C27_FailedMatchIsSkipped ==
    [][(S3MatchFails /\ loc3.i + 1 < Len(loc3.match_ids)) =>
          /\ pc' = "s3_match"
          /\ loc3'.i = loc3.i + 1]_vars


\* C28: in Stage 4 a failed timeline fetch is not propagated: the step that
\* fetches a timeline either reads it, or adds no event row and goes on to the
\* next match or to the end of the stage.
C28_FailedTimelineFetchIsSkipped ==
    [][pc = "s4_fetch" =>
          \/ pc' = "s4_frames"
          \/ /\ pc' \in {"s4_fetch", "call", "done"}
             /\ loc4'.data_events = loc4.data_events
             /\ Match_Timeline_Table' = Match_Timeline_Table]_vars


\* the flush threshold a run is documented to use: 1000 when batch_insert_limit
\* was not given
DocumentedThreshold == IF batch_insert_limit = -1 THEN 1000 ELSE batch_insert_limit

\* C30: with batch_insert_limit left at -1 the stages flush as with 1000; for
\* Stage 2: a player whose index is not a multiple of the documented threshold
\* causes no write to the match-id table.
C30_DefaultThresholdIsThousand ==
    [][(pc = "s2_player" /\ PyMod(loc2.count, DocumentedThreshold) # 0) =>
          Match_ID_Table' = Match_ID_Table]_vars


\* the row was emitted for event e: it has e's type, timestamp, position and
\* in-game id, and for a kill event e's subtype
RowIsOf(row, e) ==
    /\ row.event = e.type
    /\ row.timestamp = e.timestamp
    /\ row.x = e.x /\ row.y = e.y
    /\ row.inGameId = e.killerId
    /\ e.type \in KillEventTypes => row.type = event_type_e(e)

\* C31: for every allow-list, each event row that the processing of a frame
\* adds to the buffer carries the fields of an allow-listed event of that
\* frame with the row's event type.
C31_EventRowCarriesOwnFields ==
    [][pc = "s4_frames" =>
          \A n \in (Len(loc4.data_events) + 1)..Len(loc4'.data_events) :
              loc4'.data_events[n].event # "POSITION" =>
                  \E j \in 1..Len(loc4'.frame.events) :
                      /\ loc4'.frame.events[j].type \in eventTypesToConsider
                      /\ RowIsOf(loc4'.data_events[n], loc4'.frame.events[j])]_vars

====
